---- MODULE Spec2Model ----
(***************************************************************************)
(* Program_02_SDL_Render/main.cpp as a state machine: the program reads    *)
(* patterns.json, selects the catalog, resolves one named shape, computes  *)
(* its bounding box and centering offset and then redraws the shape every  *)
(* frame until a quit event or ESC is polled.                              *)
(***************************************************************************)
EXTENDS Integers, Sequences, FiniteSets, TLC

VARIABLES
    fileState,      \* environment: patterns.json is "missing", "malformed" or "ok"
    document,       \* environment: the JSON document patterns.json holds
    argv1,          \* environment: the pattern name given (argv[1] or stdin)
    sdlEnv,         \* environment: which SDL call fails, or "ok"
    inputsLeft,     \* environment: events the user may still produce
    queue,          \* SDL's event queue
    pc,             \* position in main
    data,           \* json data
    patterns_data,  \* json patterns_data
    listed,         \* the names printed under "Available patterns:"
    choice,         \* std::string choice
    shape,          \* Shape shape
    min_x, max_x, min_y, max_y,
    patternCellWidth, patternCellHeight,
    sdlInit,        \* "no", "yes", "quit"
    window,         \* "none", "open", "destroyed"
    renderer,       \* "none", "open", "destroyed"
    rgb,            \* <<r, g, b>>
    offsetCellsX, offsetCellsY,
    running,        \* bool running
    event,          \* SDL_Event event
    presented,      \* the frames handed to the display, oldest first
    stderr,         \* the diagnostics written to std::cerr
    exitStatus      \* "none", "0", "1", "SIGABRT"

vars == <<fileState, document, argv1, sdlEnv, inputsLeft, queue, pc, data,
          patterns_data, listed, choice, shape, min_x, max_x, min_y, max_y,
          patternCellWidth, patternCellHeight, sdlInit, window, renderer, rgb,
          offsetCellsX, offsetCellsY, running, event, presented, stderr,
          exitStatus>>

----------------------------------------------------------------------------
(* Bounds of the model *)

\* longest cell list of the enumerated shapes
MaxCells == 2
\* events the user produces in one run
MaxInputs == 2
\* frames after which the model stops following the render loop
MaxFrames == 2

----------------------------------------------------------------------------
(* Program constants *)

cellSize == 20
gridWidth == 30
gridHeight == 30
\* SDL_SetRenderDrawColor(renderer, 30, 30, 40, 255)
Background == <<30, 30, 40>>

----------------------------------------------------------------------------
(* JSON values, as nlohmann::json holds them *)

JInt(n) == [t |-> "int", v |-> n]
JString == [t |-> "string", v |-> 0]
\* a key the enclosing object does not hold
JAbsent == [t |-> "absent", v |-> 0]

\* int i = j; succeeds on numbers, throws type_error otherwise (operator[] on
\* a missing key of a non-const json first inserts null, which throws too)
Convertible(j) == j.t = "int"

Cell(x, y) == [x |-> x, y |-> y]
JCell(x, y) == [x |-> JInt(x), y |-> JInt(y)]

\* a catalog entry {"size": {"w":, "h":}, "cells": [...]}
Entry(w, h, cells) ==
    [size  |-> [present |-> TRUE, w |-> JInt(w), h |-> JInt(h)],
     cells |-> [present |-> TRUE,
                items |-> [i \in 1..Len(cells) |-> JCell(cells[i].x, cells[i].y)]]]

\* the value a top-level key holds
KAbsent == [present |-> FALSE, isObject |-> FALSE, map |-> <<>>]
KNull == [present |-> TRUE, isObject |-> FALSE, map |-> <<>>]
KObject(m) == [present |-> TRUE, isObject |-> TRUE, map |-> m]

\* json::contains(key): true only on an object holding the key
Contains(k, name) == k.present /\ k.isObject /\ name \in DOMAIN k.map

----------------------------------------------------------------------------
(* Inputs *)

GliderCells == <<Cell(1, 0), Cell(2, 1), Cell(0, 2), Cell(1, 2), Cell(2, 2)>>
GliderEntry == Entry(3, 3, GliderCells)

\* coordinates: around zero, and far enough to exceed the 30-cell grid
Coords == {-1, 0, 1, 30, 31}
Cells == {Cell(x, y) : x \in Coords, y \in Coords}
CellSeqs(n) == UNION {[1..k -> Cells] : k \in 0..n}

\* entries that nlohmann::json cannot convert
NoCellsEntry ==
    [size  |-> [present |-> TRUE, w |-> JInt(1), h |-> JInt(1)],
     cells |-> [present |-> FALSE, items |-> <<>>]]
NoSizeEntry ==
    [size  |-> [present |-> FALSE, w |-> JAbsent, h |-> JAbsent],
     cells |-> [present |-> TRUE, items |-> <<JCell(0, 0)>>]]
NoXEntry ==
    [size  |-> [present |-> TRUE, w |-> JInt(2), h |-> JInt(1)],
     cells |-> [present |-> TRUE,
                items |-> <<JCell(0, 0), [x |-> JAbsent, y |-> JInt(0)]>>]]
StringYEntry ==
    [size  |-> [present |-> TRUE, w |-> JInt(1), h |-> JInt(1)],
     cells |-> [present |-> TRUE,
                items |-> <<[x |-> JInt(1), y |-> JString]>>]]
MalformedEntries == {NoCellsEntry, NoSizeEntry, NoXEntry, StringYEntry}

\* shapes of the full program's documents
SampleShapes ==
    {<<>>, <<Cell(1, 1)>>, <<Cell(-1, -1)>>, <<Cell(-1, 0), Cell(1, 1)>>,
     <<Cell(0, 0), Cell(30, 0)>>, <<Cell(-1, 0), Cell(31, 31)>>,
     <<Cell(1, 30), Cell(1, 30)>>}

EmptyCatalog == <<>>
GliderCatalog == "glider" :> GliderEntry
BlobCatalog(e) == "blob" :> e
BothCatalog(e) == ("glider" :> GliderEntry) @@ ("blob" :> e)

Doc(s, p) == [shapes |-> s, patterns |-> p]

BlobEntries == {Entry(1, 1, c) : c \in SampleShapes} \cup MalformedEntries

OneKeyValues ==
    {KNull, KObject(EmptyCatalog), KObject(GliderCatalog)}
        \cup {KObject(BlobCatalog(e)) : e \in BlobEntries}
TwoKeyValues ==
    {KNull, KObject(EmptyCatalog), KObject(GliderCatalog),
     KObject(BothCatalog(Entry(1, 1, <<Cell(1, 1)>>)))}

Docs ==
    {Doc(k, KAbsent) : k \in OneKeyValues}
        \cup {Doc(KAbsent, k) : k \in OneKeyValues}
        \cup {Doc(s, p) : s \in TwoKeyValues, p \in TwoKeyValues}
        \cup {Doc(KAbsent, KAbsent)}

Names == {"glider", "blob", "nonexistent"}

EvQuit == [type |-> "SDL_QUIT", sym |-> "none"]
EvEscDown == [type |-> "SDL_KEYDOWN", sym |-> "SDLK_ESCAPE"]
EvOtherDown == [type |-> "SDL_KEYDOWN", sym |-> "SDLK_a"]
EvEscUp == [type |-> "SDL_KEYUP", sym |-> "SDLK_ESCAPE"]
EvNone == [type |-> "none", sym |-> "none"]
Events == {EvQuit, EvEscDown, EvOtherDown, EvEscUp}

\* samples of std::uniform_int_distribution<int> dist(80, 255), three draws
ColourSamples == {<<80, 80, 80>>, <<255, 80, 177>>}

NoShape == [name |-> "", width |-> 0, height |-> 0, cells |-> <<>>]

----------------------------------------------------------------------------
(* Pure computations of main *)

\* C++ int division truncates toward zero
CDiv(a, b) == IF a >= 0 THEN a \div b ELSE -((-a) \div b)

Min2(a, b) == IF a < b THEN a ELSE b
Max2(a, b) == IF a < b THEN b ELSE a

\* the accumulators before the loop: int min_x = 0, max_x = 0, min_y = 0, max_y = 0
BoxSeed == [min_x |-> 0, max_x |-> 0, min_y |-> 0, max_y |-> 0]

\* a slip of the loop body: max_x follows c.y
StepMinMaxSlip(acc, c) ==
    [min_x |-> Min2(acc.min_x, c.x), max_x |-> Max2(acc.max_x, c.y),
     min_y |-> Min2(acc.min_y, c.y), max_y |-> Max2(acc.max_y, c.y)]

\* one iteration of the min/max loop
StepMinMax(acc, c) ==
    [min_x |-> Min2(acc.min_x, c.x), max_x |-> Max2(acc.max_x, c.x),
     min_y |-> Min2(acc.min_y, c.y), max_y |-> Max2(acc.max_y, c.y)]

RECURSIVE BoxLoop(_, _, _)
BoxLoop(cells, i, acc) ==
    IF i > Len(cells) THEN acc
    ELSE BoxLoop(cells, i + 1, StepMinMax(acc, cells[i]))

BoundingBox(cells) == BoxLoop(cells, 1, BoxSeed)

\* the operands of the subtraction exchanged
CenterOffsetSwapped(grid, pattern) == CDiv(pattern - grid, 2)

\* the division rounding down instead of toward zero
CenterOffsetFloor(grid, pattern) == (grid - pattern) \div 2

\* (gridWidth - patternCellWidth) / 2
CenterOffset(grid, pattern) == CDiv(grid - pattern, 2)

\* int gx = c.x - min_x + offsetCellsX
GridX(c) == c.x - min_x + offsetCellsX
\* int gy = c.y - min_y + offsetCellsY
GridY(c) == c.y - min_y + offsetCellsY

\* the rectangle with px and py exchanged
CellRectTransposed(c) ==
    <<GridY(c) * cellSize, GridX(c) * cellSize, cellSize, cellSize>>

\* SDL_Rect rect { px, py, cellSize, cellSize }
CellRect(c) ==
    LET gx == GridX(c)
        gy == GridY(c)
        px == gx * cellSize
        py == gy * cellSize
    IN  <<px, py, cellSize, cellSize>>

\* the draw loop: one SDL_RenderFillRect per cell
RECURSIVE FillRects(_, _, _)
FillRects(cells, i, out) ==
    IF i > Len(cells) THEN out
    ELSE FillRects(cells, i + 1, Append(out, CellRect(cells[i])))

\* the entry makes a json conversion throw
EntryThrows(e) ==
    \/ ~e.size.present
    \/ ~Convertible(e.size.w)
    \/ ~Convertible(e.size.h)
    \/ /\ e.cells.present
       /\ \E i \in 1..Len(e.cells.items) :
            ~Convertible(e.cells.items[i].x) \/ ~Convertible(e.cells.items[i].y)

\* the cells pushed by the loop over pattern_json["cells"]; a missing "cells"
\* reads as null, over which the loop does not iterate
ParsedCells(e) ==
    IF e.cells.present
    THEN [i \in 1..Len(e.cells.items) |->
            Cell(e.cells.items[i].x.v, e.cells.items[i].y.v)]
    ELSE <<>>

\* the value of the first accepted key present in the document
CatalogOf(d) == IF d.shapes.present THEN d.shapes ELSE d.patterns

\* event.type == SDL_QUIT, or SDL_KEYDOWN with any key
StopsLoopAnyKey(e) == e.type = "SDL_QUIT" \/ e.type = "SDL_KEYDOWN"

\* event.type == SDL_QUIT, or SDL_KEYDOWN with SDLK_ESCAPE
StopsLoop(e) ==
    \/ e.type = "SDL_QUIT"
    \/ e.type = "SDL_KEYDOWN" /\ e.sym = "SDLK_ESCAPE"

----------------------------------------------------------------------------
(* The steps of main *)

envVars == <<fileState, document, argv1, sdlEnv>>
boxVars == <<min_x, max_x, min_y, max_y, patternCellWidth, patternCellHeight>>
sdlVars == <<sdlInit, window, renderer>>
placeVars == <<rgb, offsetCellsX, offsetCellsY>>
loopVars == <<running, event, presented>>

\* std::cerr << msg; return 1
Fail(msg) ==
    /\ stderr' = Append(stderr, msg)
    /\ exitStatus' = "1"
    /\ pc' = "exited"

Continue(next) ==
    /\ pc' = next
    /\ UNCHANGED <<stderr, exitStatus>>

\* std::ifstream file("patterns.json")
OpenFile ==
    /\ pc = "open"
    /\ IF fileState = "missing"
       THEN Fail("Error: Could not open patterns.json")
       ELSE Continue("parse")
    /\ UNCHANGED <<envVars, inputsLeft, queue, data, patterns_data, listed,
                   choice, shape, boxVars, sdlVars, placeVars, loopVars>>

\* file >> data, inside try/catch
ParseJSON ==
    /\ pc = "parse"
    /\ IF fileState = "malformed"
       THEN Fail("JSON parse error") /\ UNCHANGED data
       ELSE Continue("select") /\ data' = document
    /\ UNCHANGED <<envVars, inputsLeft, queue, patterns_data, listed,
                   choice, shape, boxVars, sdlVars, placeVars, loopVars>>

\* the two keys tested in the other order
SelectCatalogPatternsFirst ==
    /\ pc = "select"
    /\ IF data.patterns.present
       THEN patterns_data' = data.patterns /\ Continue("enumerate")
       ELSE IF data.shapes.present
       THEN patterns_data' = data.shapes /\ Continue("enumerate")
       ELSE Fail("Error: JSON missing 'shapes' or 'patterns' key")
                /\ UNCHANGED patterns_data
    /\ UNCHANGED <<envVars, inputsLeft, queue, data, listed,
                   choice, shape, boxVars, sdlVars, placeVars, loopVars>>

\* the catalog is "shapes" when present, else "patterns" when present
SelectCatalog ==
    /\ pc = "select"
    /\ IF data.shapes.present
       THEN patterns_data' = data.shapes /\ Continue("enumerate")
       ELSE IF data.patterns.present
       THEN patterns_data' = data.patterns /\ Continue("enumerate")
       ELSE Fail("Error: JSON missing 'shapes' or 'patterns' key")
                /\ UNCHANGED patterns_data
    /\ UNCHANGED <<envVars, inputsLeft, queue, data, listed,
                   choice, shape, boxVars, sdlVars, placeVars, loopVars>>

\* the loop printing it.key() for every entry of patterns_data
Enumerate ==
    /\ pc = "enumerate"
    /\ listed' = DOMAIN patterns_data.map
    /\ Continue("choose")
    /\ UNCHANGED <<envVars, inputsLeft, queue, data, patterns_data,
                   choice, shape, boxVars, sdlVars, placeVars, loopVars>>

\* choice = argv[1], or std::cin >> choice
ChoosePattern ==
    /\ pc = "choose"
    /\ choice' = argv1
    /\ Continue("lookup")
    /\ UNCHANGED <<envVars, inputsLeft, queue, data, patterns_data, listed,
                   shape, boxVars, sdlVars, placeVars, loopVars>>

\* the lookup written with operator[], which inserts null for a missing key
LookupByIndex ==
    /\ pc = "lookup"
    /\ IF ~Contains(patterns_data, choice)
       THEN /\ Fail("Pattern not found.")
            /\ patterns_data' =
                 [patterns_data EXCEPT !.isObject = TRUE,
                     !.map = (choice :> NoCellsEntry) @@ patterns_data.map]
       ELSE Continue("resolve") /\ UNCHANGED patterns_data
    /\ UNCHANGED <<envVars, inputsLeft, queue, data, listed,
                   choice, shape, boxVars, sdlVars, placeVars, loopVars>>

\* if (!patterns_data.contains(choice)) { ...; return 1; }
Lookup ==
    /\ pc = "lookup"
    /\ IF ~Contains(patterns_data, choice)
       THEN Fail("Pattern not found.")
       ELSE Continue("resolve")
    /\ UNCHANGED <<envVars, inputsLeft, queue, data, patterns_data, listed,
                   choice, shape, boxVars, sdlVars, placeVars, loopVars>>

\* Shape shape built from patterns_data[choice]; a failed conversion throws
\* nlohmann::json::type_error, which nothing catches: std::terminate
ResolveShape ==
    /\ pc = "resolve"
    /\ LET pattern_json == patterns_data.map[choice]
       IN  IF EntryThrows(pattern_json)
           THEN /\ pc' = "aborted"
                /\ exitStatus' = "SIGABRT"
                /\ UNCHANGED <<shape, stderr>>
           ELSE /\ shape' = [name   |-> choice,
                             width  |-> pattern_json.size.w.v,
                             height |-> pattern_json.size.h.v,
                             cells  |-> ParsedCells(pattern_json)]
                /\ Continue("bbox")
    /\ UNCHANGED <<envVars, inputsLeft, queue, data, patterns_data, listed,
                   choice, boxVars, sdlVars, placeVars, loopVars>>

\* the min/max loop, then patternCellWidth and patternCellHeight
ComputeBoundingBox ==
    /\ pc = "bbox"
    /\ LET box == BoundingBox(shape.cells)
       IN  /\ min_x' = box.min_x
           /\ max_x' = box.max_x
           /\ min_y' = box.min_y
           /\ max_y' = box.max_y
           /\ patternCellWidth' = box.max_x - box.min_x + 1
           /\ patternCellHeight' = box.max_y - box.min_y + 1
    /\ Continue("sdl_init")
    /\ UNCHANGED <<envVars, inputsLeft, queue, data, patterns_data, listed,
                   choice, shape, sdlVars, placeVars, loopVars>>

\* SDL_Init(SDL_INIT_VIDEO)
InitSDL ==
    /\ pc = "sdl_init"
    /\ IF sdlEnv = "no_init"
       THEN Fail("SDL Init Error") /\ UNCHANGED sdlInit
       ELSE Continue("create_window") /\ sdlInit' = "yes"
    /\ UNCHANGED <<envVars, inputsLeft, queue, data, patterns_data, listed,
                   choice, shape, boxVars, window, renderer, placeVars, loopVars>>

\* SDL_CreateWindow; on failure SDL_Quit and return 1
CreateWindow ==
    /\ pc = "create_window"
    /\ IF sdlEnv = "no_window"
       THEN Fail("Window Error") /\ sdlInit' = "quit" /\ UNCHANGED window
       ELSE Continue("create_renderer") /\ window' = "open" /\ UNCHANGED sdlInit
    /\ UNCHANGED <<envVars, inputsLeft, queue, data, patterns_data, listed,
                   choice, shape, boxVars, renderer, placeVars, loopVars>>

\* SDL_CreateRenderer; on failure SDL_DestroyWindow, SDL_Quit and return 1
CreateRenderer ==
    /\ pc = "create_renderer"
    /\ IF sdlEnv = "no_renderer"
       THEN /\ Fail("Renderer Error")
            /\ window' = "destroyed"
            /\ sdlInit' = "quit"
            /\ UNCHANGED renderer
       ELSE /\ Continue("color")
            /\ renderer' = "open"
            /\ UNCHANGED <<sdlInit, window>>
    /\ UNCHANGED <<envVars, inputsLeft, queue, data, patterns_data, listed,
                   choice, shape, boxVars, placeVars, loopVars>>

\* r, g, b drawn from dist(rng)
PickColor ==
    /\ pc = "color"
    /\ \E c \in ColourSamples : rgb' = c
    /\ Continue("offset")
    /\ UNCHANGED <<envVars, inputsLeft, queue, data, patterns_data, listed,
                   choice, shape, boxVars, sdlVars, offsetCellsX, offsetCellsY,
                   loopVars>>

\* offsetCellsX, offsetCellsY; bool running = true
ComputeOffset ==
    /\ pc = "offset"
    /\ offsetCellsX' = CenterOffset(gridWidth, patternCellWidth)
    /\ offsetCellsY' = CenterOffset(gridHeight, patternCellHeight)
    /\ running' = TRUE
    /\ Continue("loop_test")
    /\ UNCHANGED <<envVars, inputsLeft, queue, data, patterns_data, listed,
                   choice, shape, boxVars, sdlVars, rgb, event, presented>>

LoopPcs == {"loop_test", "poll", "draw"}

\* the user closes the window or presses or releases a key
UserInput ==
    /\ pc \in LoopPcs
    /\ window = "open"
    /\ inputsLeft > 0
    /\ \E e \in Events : queue' = Append(queue, e)
    /\ inputsLeft' = inputsLeft - 1
    /\ UNCHANGED <<envVars, pc, data, patterns_data, listed, choice, shape,
                   boxVars, sdlVars, placeVars, loopVars, stderr, exitStatus>>

\* while (running)
LoopTest ==
    /\ pc = "loop_test"
    /\ IF running
       THEN Len(presented) < MaxFrames /\ Continue("poll")
       ELSE Continue("destroy_renderer")
    /\ UNCHANGED <<envVars, inputsLeft, queue, data, patterns_data, listed,
                   choice, shape, boxVars, sdlVars, placeVars, loopVars>>

\* one SDL_PollEvent of the inner loop and the handling of what it returns
PollEvent ==
    /\ pc = "poll"
    /\ IF queue /= <<>>
       THEN /\ event' = Head(queue)
            /\ queue' = Tail(queue)
            /\ running' = IF StopsLoop(Head(queue)) THEN FALSE ELSE running
            /\ Continue("poll")
       ELSE /\ Continue("draw")
            /\ UNCHANGED <<event, queue, running>>
    /\ UNCHANGED <<envVars, inputsLeft, data, patterns_data, listed, choice,
                   shape, boxVars, sdlVars, placeVars, presented>>

\* the frame drawn with a colour picked anew
DrawFrameRecolour ==
    /\ pc = "draw"
    /\ \E c \in ColourSamples : rgb' = c
    /\ presented' = Append(presented,
                        [bg     |-> Background,
                         colour |-> rgb',
                         rects  |-> FillRects(shape.cells, 1, <<>>)])
    /\ Continue("loop_test")
    /\ UNCHANGED <<envVars, inputsLeft, queue, data, patterns_data, listed,
                   choice, shape, boxVars, sdlVars, offsetCellsX, offsetCellsY,
                   running, event>>

\* clear to the background, fill one rectangle per cell, present, delay
DrawFrame ==
    /\ pc = "draw"
    /\ presented' = Append(presented,
                        [bg     |-> Background,
                         colour |-> rgb,
                         rects  |-> FillRects(shape.cells, 1, <<>>)])
    /\ Continue("loop_test")
    /\ UNCHANGED <<envVars, inputsLeft, queue, data, patterns_data, listed,
                   choice, shape, boxVars, sdlVars, placeVars, running, event>>

\* SDL_DestroyRenderer(renderer)
DestroyRenderer ==
    /\ pc = "destroy_renderer"
    /\ renderer' = "destroyed"
    /\ Continue("destroy_window")
    /\ UNCHANGED <<envVars, inputsLeft, queue, data, patterns_data, listed,
                   choice, shape, boxVars, sdlInit, window, placeVars, loopVars>>

\* SDL_DestroyWindow(window)
DestroyWindow ==
    /\ pc = "destroy_window"
    /\ window' = "destroyed"
    /\ Continue("sdl_quit")
    /\ UNCHANGED <<envVars, inputsLeft, queue, data, patterns_data, listed,
                   choice, shape, boxVars, sdlInit, renderer, placeVars, loopVars>>

\* SDL_Quit(); return 0
QuitSDL ==
    /\ pc = "sdl_quit"
    /\ sdlInit' = "quit"
    /\ exitStatus' = "0"
    /\ pc' = "exited"
    /\ UNCHANGED <<envVars, inputsLeft, queue, data, patterns_data, listed,
                   choice, shape, boxVars, window, renderer, placeVars,
                   loopVars, stderr>>

----------------------------------------------------------------------------
(* Specifications *)

\* what every run starts from, whatever its inputs
Blank ==
    /\ queue = <<>>
    /\ shape = NoShape
    /\ min_x = 0 /\ max_x = 0 /\ min_y = 0 /\ max_y = 0
    /\ patternCellWidth = 0 /\ patternCellHeight = 0
    /\ sdlInit = "no" /\ window = "none" /\ renderer = "none"
    /\ rgb = <<0, 0, 0>>
    /\ offsetCellsX = 0 /\ offsetCellsY = 0
    /\ running = FALSE
    /\ event = EvNone
    /\ presented = <<>>
    /\ stderr = <<>>
    /\ exitStatus = "none"

\* the program at the start of main, over the sample documents
Init ==
    /\ fileState \in {"missing", "malformed", "ok"}
    /\ document \in Docs
    /\ fileState /= "ok" => document = Doc(KAbsent, KAbsent)
    /\ argv1 \in Names
    /\ sdlEnv \in {"ok", "no_init", "no_window", "no_renderer"}
    /\ inputsLeft = MaxInputs
    /\ pc = "open"
    /\ data = Doc(KAbsent, KAbsent)
    /\ patterns_data = KNull
    /\ choice = ""
    /\ listed = {}
    /\ Blank

Next ==
    \/ OpenFile
    \/ ParseJSON
    \/ SelectCatalog
    \/ Enumerate
    \/ ChoosePattern
    \/ Lookup
    \/ ResolveShape
    \/ ComputeBoundingBox
    \/ InitSDL
    \/ CreateWindow
    \/ CreateRenderer
    \/ PickColor
    \/ ComputeOffset
    \/ UserInput
    \/ LoopTest
    \/ PollEvent
    \/ DrawFrame
    \/ DestroyRenderer
    \/ DestroyWindow
    \/ QuitSDL

Spec == Init /\ [][Next]_vars

\* the program after a successful lookup, over every cell list up to MaxCells
\* cells and the glider catalog, with no user input
InitPlace ==
    /\ fileState = "ok"
    /\ \/ /\ argv1 = "blob"
          /\ \E c \in CellSeqs(MaxCells) :
               document = Doc(KObject(BlobCatalog(Entry(1, 1, c))), KAbsent)
       \/ /\ argv1 = "glider"
          /\ document = Doc(KObject(GliderCatalog), KAbsent)
    /\ sdlEnv = "ok"
    /\ inputsLeft = 0
    /\ pc = "resolve"
    /\ data = document
    /\ patterns_data = document.shapes
    /\ choice = argv1
    /\ listed = {argv1}
    /\ Blank

NextPlace ==
    \/ ResolveShape
    \/ ComputeBoundingBox
    \/ InitSDL
    \/ CreateWindow
    \/ CreateRenderer
    \/ PickColor
    \/ ComputeOffset
    \/ LoopTest
    \/ PollEvent
    \/ DrawFrame

SpecPlace == InitPlace /\ [][NextPlace]_vars

----------------------------------------------------------------------------
(* Properties *)

\* the bounding box has been computed and main has not returned
AfterBox ==
    pc \in {"sdl_init", "create_window", "create_renderer", "color", "offset",
            "loop_test", "poll", "draw", "destroy_renderer", "destroy_window",
            "sdl_quit"}

\* the centering offsets have been computed and main has not returned
AfterOffset ==
    pc \in {"loop_test", "poll", "draw", "destroy_renderer", "destroy_window",
            "sdl_quit"}

\* the cells of the chosen entry as the document gives them
SourceCells == document.shapes.map[argv1].cells.items

\* C1: every presented frame holds exactly one rectangle per cell of the
\* document's entry, in source order, the i-th being
\* ((x - min_x + offset_x) * 20, (y - min_y + offset_y) * 20, 20, 20); for the
\* glider the box is (0,2,0,2), the offset (13,13) and the first rectangle
\* (280, 260, 20, 20).
C1_OneRectPerCell ==
    \A f \in 1..Len(presented) :
        LET r == presented[f].rects
        IN  /\ Len(r) = Len(SourceCells)
            /\ \A i \in 1..Len(SourceCells) :
                 r[i] = <<(SourceCells[i].x.v - min_x + offsetCellsX) * 20,
                          (SourceCells[i].y.v - min_y + offsetCellsY) * 20,
                          20, 20>>
            /\ argv1 = "glider" =>
                 /\ <<min_x, max_x, min_y, max_y>> = <<0, 2, 0, 2>>
                 /\ <<patternCellWidth, patternCellHeight>> = <<3, 3>>
                 /\ <<offsetCellsX, offsetCellsY>> = <<13, 13>>
                 /\ r[1] = <<280, 260, 20, 20>>

C1_Witness ==
    /\ argv1 = "glider"
    /\ Len(presented) = 2
    /\ Len(presented[2].rects) = 5
    /\ presented[2].rects[1] = <<280, 260, 20, 20>>

\* C2: for a shape with at least one cell the computed box has
\* min_x <= max_x and min_y <= max_y and contains every cell.
C2_BoxContainsCells ==
    (AfterBox /\ shape.cells /= <<>>) =>
        /\ min_x <= max_x
        /\ min_y <= max_y
        /\ \A i \in 1..Len(shape.cells) :
             /\ min_x <= shape.cells[i].x /\ shape.cells[i].x <= max_x
             /\ min_y <= shape.cells[i].y /\ shape.cells[i].y <= max_y

C2_Witness ==
    /\ AfterBox
    /\ Len(shape.cells) = 2
    /\ shape.cells[1] = Cell(31, -1)
    /\ shape.cells[2] = Cell(-1, 30)
    /\ <<min_x, max_x, min_y, max_y>> = <<-1, 31, -1, 30>>

\* C3: for a non-empty shape the computed box is the minimal one: min_x is the
\* smallest cell x, max_x the largest, likewise for y, and the pattern width
\* and height are the true extents of the cells.
C3_BoxIsMinimal ==
    (AfterBox /\ shape.cells /= <<>>) =>
        LET xs == {shape.cells[i].x : i \in 1..Len(shape.cells)}
            ys == {shape.cells[i].y : i \in 1..Len(shape.cells)}
        IN  /\ min_x \in xs /\ max_x \in xs
            /\ min_y \in ys /\ max_y \in ys
            /\ \A x \in xs : min_x <= x /\ x <= max_x
            /\ \A y \in ys : min_y <= y /\ y <= max_y
            /\ patternCellWidth = max_x - min_x + 1
            /\ patternCellHeight = max_y - min_y + 1

C5_OffsetIsFloor ==
    AfterOffset =>
        /\ patternCellWidth >= 1 /\ patternCellHeight >= 1
        /\ offsetCellsX = (30 - patternCellWidth) \div 2
        /\ offsetCellsY = (30 - patternCellHeight) \div 2

\* C5 amended: the offset is (30 - p) / 2 rounded toward zero: twice the
\* offset differs from 30 - p by at most one and is never farther from zero.
C5_OffsetTruncates ==
    AfterOffset =>
        /\ patternCellWidth >= 1 /\ patternCellHeight >= 1
        /\ \A pair \in {<<patternCellWidth, offsetCellsX>>,
                        <<patternCellHeight, offsetCellsY>>} :
             LET d == 30 - pair[1]
                 o == pair[2]
             IN  /\ d >= 0 => (0 <= d - 2 * o /\ d - 2 * o <= 1)
                 /\ d < 0 => (0 <= 2 * o - d /\ 2 * o - d <= 1)

C5_Witness ==
    /\ AfterOffset
    /\ patternCellWidth = 33 /\ offsetCellsX = -1
    /\ patternCellHeight = 31 /\ offsetCellsY = 0

\* the lookup of the chosen name has been made
Looked == choice /= "" /\ pc /= "lookup"

\* C6: a name absent from the enumerated catalog ends the program with a
\* diagnostic and status 1, before SDL is initialised or a frame is presented,
\* and the catalog still holds exactly the enumerated names.
C6_UnknownNameFails ==
    (Looked /\ choice \notin listed) =>
        /\ pc = "exited"
        /\ exitStatus = "1"
        /\ stderr = <<"Pattern not found.">>
        /\ sdlInit = "no" /\ window = "none" /\ renderer = "none"
        /\ presented = <<>>
        /\ DOMAIN patterns_data.map = listed
        /\ patterns_data \in {document.shapes, document.patterns}
        /\ data = document

C6_Witness ==
    /\ Looked
    /\ choice = "nonexistent"
    /\ listed = {"glider", "blob"}
    /\ pc = "exited"
    /\ exitStatus = "1"

\* a key holds a mapping with at least one entry
NonEmptyMapping(k) == k.present /\ k.isObject /\ DOMAIN k.map /= {}

\* the catalog key has been selected, or found missing
Selected == fileState = "ok" /\ pc \notin {"open", "parse", "select"}

MissingKeyFailure ==
    /\ pc = "exited"
    /\ exitStatus = "1"
    /\ stderr = <<"Error: JSON missing 'shapes' or 'patterns' key">>

\* C7 as stated: when exactly one of the two keys holds a non-empty mapping,
\* that mapping is the catalog enumerated and resolved against; the load fails
\* for a missing key only when neither key is present.
C7_NonEmptyKeyIsCatalog ==
    Selected =>
        /\ (NonEmptyMapping(document.shapes) /\ ~NonEmptyMapping(document.patterns)) =>
             /\ patterns_data = document.shapes
             /\ pc /= "enumerate" => listed = DOMAIN document.shapes.map
        /\ (NonEmptyMapping(document.patterns) /\ ~NonEmptyMapping(document.shapes)) =>
             /\ patterns_data = document.patterns
             /\ pc /= "enumerate" => listed = DOMAIN document.patterns.map
        /\ MissingKeyFailure =>
             (~document.shapes.present /\ ~document.patterns.present)

\* C7 amended: the catalog is the value of "shapes" whenever that key is
\* present, and the value of "patterns" only when "shapes" is absent; the load
\* fails for a missing key exactly when neither key is present.
C7_FirstPresentKeyIsCatalog ==
    Selected =>
        /\ document.shapes.present =>
             /\ patterns_data = document.shapes
             /\ pc /= "enumerate" => listed = DOMAIN document.shapes.map
        /\ (~document.shapes.present /\ document.patterns.present) =>
             /\ patterns_data = document.patterns
             /\ pc /= "enumerate" => listed = DOMAIN document.patterns.map
        /\ MissingKeyFailure <=>
             (~document.shapes.present /\ ~document.patterns.present)

C7_Witness ==
    /\ Selected
    /\ document.shapes = KObject(EmptyCatalog)
    /\ document.patterns = KObject(GliderCatalog)
    /\ choice = "glider"
    /\ listed = {}
    /\ pc = "exited"
    /\ stderr = <<"Pattern not found.">>

\* the chosen entry lacks "cells", or one of its cells lacks an integer x or y
MalformedChosenEntry ==
    /\ Contains(patterns_data, choice)
    /\ LET e == patterns_data.map[choice]
       IN  \/ ~e.cells.present
           \/ \E i \in 1..Len(e.cells.items) :
                e.cells.items[i].x.t /= "int" \/ e.cells.items[i].y.t /= "int"

\* C8: resolving a malformed entry ends the program with a diagnostic and
\* status 1, and no window is created and no frame presented.
C8_MalformedEntryFails ==
    (Looked /\ pc /= "resolve" /\ MalformedChosenEntry) =>
        /\ pc = "exited"
        /\ exitStatus = "1"
        /\ stderr /= <<>>
        /\ window = "none"
        /\ presented = <<>>

\* C9: in the render loop a polled quit event or ESC key-press clears
\* running and nothing else does; while running the loop goes on to poll and
\* draw; once running is cleared the frame under way is still presented, then
\* the renderer is destroyed, then the window, then SDL_Quit is called and
\* main returns 0.
C9_LoopStopsOnQuitOrEsc ==
    [][
        /\ (pc = "poll" /\ Len(queue') < Len(queue)) =>
             /\ event' = Head(queue)
             /\ running' =
                  (running /\ ~(\/ Head(queue).type = "SDL_QUIT"
                                \/ /\ Head(queue).type = "SDL_KEYDOWN"
                                   /\ Head(queue).sym = "SDLK_ESCAPE"))
        /\ (running /\ ~running') =>
             (pc = "poll" /\ queue /= <<>> /\ queue' = Tail(queue))
        /\ (pc = "loop_test" /\ pc' /= pc) =>
             pc' = (IF running THEN "poll" ELSE "destroy_renderer")
        /\ (pc = "poll" /\ pc' /= pc) => (queue = <<>> /\ pc' = "draw")
        /\ (pc = "draw" /\ pc' /= pc) =>
             (Len(presented') = Len(presented) + 1 /\ pc' = "loop_test")
        /\ (pc = "destroy_renderer" /\ pc' /= pc) =>
             /\ ~running /\ window = "open"
             /\ renderer' = "destroyed" /\ window' = "open"
             /\ pc' = "destroy_window"
        /\ (pc = "destroy_window" /\ pc' /= pc) =>
             /\ renderer = "destroyed" /\ sdlInit = "yes"
             /\ window' = "destroyed" /\ sdlInit' = "yes"
             /\ pc' = "sdl_quit"
        /\ (pc = "sdl_quit" /\ pc' /= pc) =>
             /\ sdlInit' = "quit" /\ exitStatus' = "0" /\ pc' = "exited"
        /\ (exitStatus /= "0" /\ exitStatus' = "0") =>
             /\ pc = "sdl_quit"
             /\ ~running
             /\ presented /= <<>>
             /\ renderer = "destroyed" /\ window = "destroyed"
    ]_vars

C9_Witness ==
    /\ pc = "exited"
    /\ exitStatus = "0"
    /\ event = EvEscDown
    /\ inputsLeft = 0
    /\ Len(presented) = 2
    /\ sdlInit = "quit"

\* a step inside the render loop leaves what the frames are computed from alone
LoopStepKeepsPlacement ==
    pc \in LoopPcs =>
        /\ shape' = shape
        /\ min_x' = min_x /\ min_y' = min_y
        /\ offsetCellsX' = offsetCellsX /\ offsetCellsY' = offsetCellsY
        /\ rgb' = rgb

\* C10: no step of the render loop changes the shape, the box minima, the
\* offsets or the draw colour, and every presented frame equals the first.
C10_FramesNeverChange ==
    /\ [](\A f \in 1..Len(presented) : presented[f] = presented[1])
    /\ [][LoopStepKeepsPlacement]_vars

C10_Witness ==
    /\ Len(presented) = 2
    /\ presented[2].rects /= <<>>
    /\ event = EvOtherDown
    /\ inputsLeft = 0
    /\ running

====
